---- MODULE Spec2Model ----
(***************************************************************************)
(* Model of the reconnecting Server-Sent-Events request of                 *)
(* src/src/client.rs: one ReconnectingRequest (the EventStream returned by *)
(* Client::stream) advanced by poll_next against a transport whose         *)
(* outcomes are chosen by the environment.                                 *)
(*                                                                         *)
(* One action is one iteration of the loop of poll_next.  The loop keeps   *)
(* nothing but `self` from one iteration to the next and every poll starts *)
(* at the top of the loop, so a poll is a run of iterations ending in the  *)
(* first one whose result is not "Continue".                               *)
(*                                                                         *)
(* Durations are counted in units of 100ms.  Texts are sequences of bytes. *)
(* The policy values stay far below Duration::MAX, so `Duration * u32`     *)
(* does not overflow here.                                                 *)
(***************************************************************************)
EXTENDS Integers, Sequences, FiniteSets, TLC

VARIABLES
    props,                 \* RequestProps.reconnect_opts of the stream
    state,                 \* name of the State variant
    retry,                 \* State::Connecting { retry, .. }
    handle,                \* condition of the future/body/timer the variant owns
    sleep,                 \* duration of State::WaitingToReconnect(Sleep)
    next_reconnect_delay,  \* ReconnectingRequest.next_reconnect_delay
    event_parser,          \* ReconnectingRequest.event_parser
    last_event_id,         \* ReconnectingRequest.last_event_id
    panicked,              \* poll_next unwound with a panic
    last,                  \* observation: the loop iteration just made
    request,               \* observation: the request sent most recently
    seen_id,               \* observation: seed, then id of the last emitted event with an id
    streak,                \* observation: waits scheduled since the last success
    waited,                \* observation: a wait was scheduled at some time
    terminated,            \* observation: an error or an end was returned
    owed,                  \* observation: events completed by the parser, not yet emitted
    lead,                  \* observation: requests sent less timers expired
    cur,                   \* which of the two streams of the client is described above
    other                  \* the other stream of the same client

vars == <<props, state, retry, handle, sleep, next_reconnect_delay,
          event_parser, last_event_id, panicked, last, request, seen_id,
          streak, waited, terminated, owed, lead, cur, other>>

(***************************************************************************)
(* Bounds                                                                  *)
(***************************************************************************)
MaxStreak == 4     \* consecutive waits followed before a success is required
MaxLine == 4       \* bytes kept in the parser's partial line
MaxData == 1       \* bytes kept in the data of the record being assembled

Min(a, b) == IF a <= b THEN a ELSE b

RECURSIVE Pow(_, _)
Pow(b, n) == IF n = 0 THEN 1 ELSE b * Pow(b, n - 1)

(***************************************************************************)
(* Texts.  A text is a sequence of bytes; the conversions of the code are  *)
(* partial functions on byte sequences.                                    *)
(***************************************************************************)

\* Number of continuation bytes a UTF-8 lead byte announces, -1 if the byte
\* cannot start a character.
Utf8Follow(b) ==
    IF b < 128 THEN 0
    ELSE IF b >= 194 /\ b <= 223 THEN 1
    ELSE IF b >= 224 /\ b <= 239 THEN 2
    ELSE IF b >= 240 /\ b <= 244 THEN 3
    ELSE -1

RECURSIVE Utf8From(_, _, _)
\* need = continuation bytes still owed to the character being read
Utf8From(bytes, i, need) ==
    IF i > Len(bytes) THEN need = 0
    ELSE IF need > 0
         THEN /\ bytes[i] >= 128
              /\ bytes[i] <= 191
              /\ Utf8From(bytes, i + 1, need - 1)
         ELSE /\ Utf8Follow(bytes[i]) >= 0
              /\ Utf8From(bytes, i + 1, Utf8Follow(bytes[i]))

\* String::from_utf8(bytes): Ok(the same bytes) or Err
from_utf8(bytes) ==
    IF Utf8From(bytes, 1, 0)
    THEN [ok |-> TRUE, value |-> bytes]
    ELSE [ok |-> FALSE, value |-> <<>>]

\* HeaderValue::from_str(text): visible ASCII, tab and bytes >= 128 only
from_str(text) ==
    IF \A i \in 1..Len(text) : (text[i] >= 32 /\ text[i] # 127) \/ text[i] = 9
    THEN [ok |-> TRUE, value |-> text]
    ELSE [ok |-> FALSE, value |-> <<>>]

(***************************************************************************)
(* The SSE parser (crate::event_parser, described in the specification     *)
(* section 4.4): a partial line, the record being assembled and a FIFO     *)
(* queue of completed events.  Lines end in LF (10); the fields `id` and   *)
(* `data` are kept, comment lines and other fields are ignored.            *)
(***************************************************************************)
NoRecord == [id |-> <<>>, data |-> <<>>, has_data |-> FALSE]

EventParser_new == [incomplete_line |-> <<>>, rec |-> NoRecord, queue |-> <<>>]

\* position of the first colon (58) of a line, 0 if there is none
RECURSIVE ColonAt(_, _)
ColonAt(line, i) ==
    IF i > Len(line) THEN 0
    ELSE IF line[i] = 58 THEN i
    ELSE ColonAt(line, i + 1)

FieldName(line) ==
    IF ColonAt(line, 1) = 0 THEN line ELSE SubSeq(line, 1, ColonAt(line, 1) - 1)

\* the value after the colon, less one leading space (32)
FieldValue(line) ==
    LET c == ColonAt(line, 1)
        v == IF c = 0 THEN <<>> ELSE SubSeq(line, c + 1, Len(line))
    IN  IF v # <<>> /\ v[1] = 32 THEN Tail(v) ELSE v

\* one complete line: [ok, parser]
parse_line(p, line) ==
    IF line = <<>>
    THEN \* blank line: dispatch unless the record has neither data nor id
         [ok |-> TRUE,
          parser |-> [p EXCEPT
              !.rec = NoRecord,
              !.queue = IF p.rec.has_data \/ p.rec.id # <<>>
                        THEN Append(@, [id |-> p.rec.id, data |-> p.rec.data])
                        ELSE @]]
    ELSE IF line[1] = 58
    THEN [ok |-> TRUE, parser |-> p]
    ELSE IF FieldName(line) = <<105, 100>>
    THEN IF from_utf8(FieldValue(line)).ok
         THEN [ok |-> TRUE, parser |-> [p EXCEPT !.rec.id = FieldValue(line)]]
         ELSE [ok |-> FALSE, parser |-> p]
    ELSE IF FieldName(line) = <<100, 97, 116, 97>>
    THEN [ok |-> TRUE,
          parser |-> [p EXCEPT
              !.rec.data = IF p.rec.has_data
                           THEN @ \o <<10>> \o FieldValue(line)
                           ELSE FieldValue(line),
              !.rec.has_data = TRUE]]
    ELSE [ok |-> TRUE, parser |-> p]

RECURSIVE feed(_, _, _)
feed(p, bytes, i) ==
    IF i > Len(bytes) THEN [ok |-> TRUE, parser |-> p]
    ELSE IF bytes[i] = 10
    THEN LET r == parse_line([p EXCEPT !.incomplete_line = <<>>], p.incomplete_line)
         IN  IF r.ok THEN feed(r.parser, bytes, i + 1) ELSE r
    ELSE feed([p EXCEPT !.incomplete_line = Append(@, bytes[i])], bytes, i + 1)

\* EventParser::process_bytes: [ok, parser]
process_bytes(p, bytes) == feed(p, bytes, 1)

\* EventParser::get_event on a parser with a queued event
get_event(p) == [event |-> Head(p.queue), parser |-> [p EXCEPT !.queue = Tail(@)]]

(***************************************************************************)
(* Inputs                                                                  *)
(***************************************************************************)
\* ReconnectOptions of the builder: any delay, cap and factor, no validation
Policies ==
    [delay : {1, 5}, delay_max : {4}, backoff_factor : {2, 3},
     retry_initial : BOOLEAN, reconnect : BOOLEAN]

\* ClientBuilder::last_event_id: none, "s", a text with a control character
Seeds == {<<>>, <<115>>, <<1>>}

\* Body chunks the transport may deliver
Chunks ==
    { <<105, 100, 58, 97, 10, 10>>,                 \* "id:a\n\n"
      <<105, 100, 58, 1, 10, 10>>,                  \* "id:\x01\n\n"
      <<105, 100, 58, 255, 10>>,                    \* "id:\xFF\n"
      <<100, 97, 116, 97, 58, 120, 10, 10>>,        \* "data:x\n\n"
      <<105, 100, 58, 195>>,                        \* "id:\xC3"
      <<169, 10, 10>>,                              \* "\xA9\n\n"
      <<105, 100, 58, 97, 10, 10, 105, 100, 58, 98, 10, 10>> }  \* "id:a\n\nid:b\n\n"

RespOutcomes == {"Pending", "Success", "BadStatus", "Err"}
BodyOutcomes == {"Pending", "Err", "None"}
CompletedOutcomes == {"Pending", "Panic"}
TimerOutcomes == {"Pending", "Elapsed"}

(***************************************************************************)
(* The stream                                                              *)
(***************************************************************************)
NoRequest ==
    [issued |-> FALSE, from |-> "none", present |-> FALSE, value |-> <<>>,
     expect |-> <<>>]

NoStep ==
    [op |-> "none", input |-> "none", result |-> "none", from |-> "none",
     flag |-> FALSE, sent |-> FALSE, after_terminal |-> FALSE,
     pre_delay |-> 0]

\* the record of one loop iteration, taken in the state it starts from
Step(op, input, result, sent) ==
    [op |-> op, input |-> input, result |-> result, from |-> state,
     flag |-> retry, sent |-> sent, after_terminal |-> terminated,
     pre_delay |-> next_reconnect_delay]

Items == {"Event", "Err(HttpRequest)", "Err(HttpStream)", "Err(parser)", "None"}
Terminals == Items \ {"Event"}

\* ReconnectingRequest::send_request: the Last-Event-ID header of the request
\* built, or a panic of the unwrap of HeaderValue::from_str.  The builder
\* gets a parsed Uri and typed headers, so Request::body returns no error.
send_request(id) ==
    IF id = <<>>
    THEN [ok |-> TRUE, present |-> FALSE, value |-> <<>>]
    ELSE [ok |-> from_str(id).ok, present |-> TRUE, value |-> from_str(id).value]

\* backoff without the cap of delay_max
backoff_uncapped(stored) ==
    [wait |-> stored, next |-> stored * props.backoff_factor]

\* ReconnectingRequest::backoff: the wait to use now and the duration stored
backoff(stored) ==
    [wait |-> stored,
     next |-> Min(props.delay_max, stored * props.backoff_factor)]

\* reset_backoff that leaves the stored duration as it is
reset_backoff_skipped == next_reconnect_delay

\* ReconnectingRequest::reset_backoff: the duration stored
reset_backoff == props.delay

\* the first attempt retried whatever the policy says
initial_retry_always == TRUE

\* the retry flag of the attempt issued from State::New
initial_retry == props.retry_initial

\* reconnect attempts taking the flag of the policy
reconnect_retry_policy == props.retry_initial

\* the retry flag of an attempt issued from State::WaitingToReconnect
reconnect_retry == TRUE

\* the id of every event stored, an empty one too
store_event_id_any(id) == from_utf8(id)

\* the resumption id after an event with this id was taken from the parser
store_event_id(id) ==
    IF id # <<>> THEN from_utf8(id) ELSE [ok |-> TRUE, value |-> last_event_id]

\* a non-success status handled as a transport failure
on_response_status_retried(o, flag) ==
    CASE o = "Pending" -> "Pending"
      [] o = "Success" -> "Connected"
      [] o \in {"BadStatus", "Err"} -> IF flag THEN "Wait" ELSE "Err(HttpStream)"

\* the arm of `match ready!(resp.poll(cx))` taken in State::Connecting
on_response(o, flag) ==
    CASE o = "Pending" -> "Pending"
      [] o = "Success" -> "Connected"
      [] o = "BadStatus" -> "Err(HttpRequest)"
      [] o = "Err" -> IF flag THEN "Wait" ELSE "Err(HttpStream)"

\* the guard on reconnect_opts.reconnect left out
on_body_always_reconnect(o, reconnect) ==
    CASE o = "Pending" -> "Pending"
      [] o # "Pending" -> "Wait"

\* the end of the body matched before the guard on reconnect_opts.reconnect
on_body_end_always(o, reconnect) ==
    CASE o = "Pending" -> "Pending"
      [] o = "None" -> "None"
      [] o = "Err" /\ reconnect -> "Wait"
      [] o = "Err" /\ ~reconnect -> "Err(HttpStream)"

\* the arm of `match ready!(body.poll_data(cx))` taken without a chunk
on_body(o, reconnect) ==
    CASE o = "Pending" -> "Pending"
      [] o # "Pending" /\ reconnect -> "Wait"
      [] o = "Err" /\ ~reconnect -> "Err(HttpStream)"
      [] o = "None" /\ ~reconnect -> "None"

\* the stream described by the variables, as one value
Mine ==
    [props |-> props, state |-> state, retry |-> retry, handle |-> handle,
     sleep |-> sleep, next_reconnect_delay |-> next_reconnect_delay,
     event_parser |-> event_parser, last_event_id |-> last_event_id,
     panicked |-> panicked, last |-> last, request |-> request,
     seen_id |-> seen_id, streak |-> streak, waited |-> waited,
     terminated |-> terminated, owed |-> owed, lead |-> lead]

\* a second stream sharing what the first one shares with the client
stream_alias(theirs, mine) == mine

\* Client::stream hands every stream its own clone of the client's
\* last_event_id: what one stream stores is not seen by the other
stream_clone(theirs, mine) == theirs

\* a step of the stream described by the variables when it is the only one
\* advanced
Alone == UNCHANGED <<cur, other>>

\* a step of the stream described by the variables beside the other stream
Apart ==
    /\ cur' = cur
    /\ other' = [other EXCEPT
           !.last_event_id = stream_clone(@, last_event_id')]

\* the caller turns to the other stream of the client
Switch ==
    /\ cur' = 3 - cur
    /\ other' = Mine
    /\ props' = other.props
    /\ state' = other.state
    /\ retry' = other.retry
    /\ handle' = other.handle
    /\ sleep' = other.sleep
    /\ next_reconnect_delay' = other.next_reconnect_delay
    /\ event_parser' = other.event_parser
    /\ last_event_id' = other.last_event_id
    /\ panicked' = other.panicked
    /\ last' = other.last
    /\ request' = other.request
    /\ seen_id' = other.seen_id
    /\ streak' = other.streak
    /\ waited' = other.waited
    /\ terminated' = other.terminated
    /\ owed' = other.owed
    /\ lead' = other.lead

\* ReconnectingRequest::new, called by Client::stream (twice: the stream
\* described by the variables and the other one)
Init ==
    /\ props \in Policies
    /\ state = "New"
    /\ retry = FALSE
    /\ handle = "none"
    /\ sleep = 0
    /\ next_reconnect_delay = props.delay
    /\ event_parser = EventParser_new
    /\ last_event_id \in Seeds
    /\ panicked = FALSE
    /\ last = NoStep
    /\ request = NoRequest
    /\ seen_id = last_event_id
    /\ streak = 0
    /\ waited = FALSE
    /\ terminated = FALSE
    /\ owed = <<>>
    /\ lead = 0
    /\ cur = 1
    /\ other = Mine

\* the unwinding of poll_next: nothing of the stream is changed
Panic(op, input) ==
    /\ panicked' = TRUE
    /\ last' = Step(op, input, "Panic", FALSE)
    /\ lead' = IF state = "WaitingToReconnect" THEN lead - 1 ELSE lead
    /\ UNCHANGED <<props, state, retry, handle, sleep, next_reconnect_delay,
                   event_parser, last_event_id, request, seen_id, streak,
                   waited, terminated, owed>>

\* return Poll::Pending or an error or end item: the state is not replaced
Return(op, input, result, newhandle) ==
    /\ last' = Step(op, input, result, FALSE)
    /\ handle' = newhandle
    /\ terminated' = (terminated \/ result \in Terminals)
    /\ UNCHANGED <<props, state, retry, sleep, next_reconnect_delay,
                   event_parser, last_event_id, panicked, request, seen_id,
                   streak, waited, owed, lead>>

\* send_request and State::Connecting { retry: flag, resp }
Connect(op, input, flag) ==
    LET r == send_request(last_event_id)
    IN  IF r.ok
        THEN /\ request' = [issued |-> TRUE, from |-> state,
                            present |-> r.present, value |-> r.value,
                            expect |-> seen_id]
             /\ state' = "Connecting"
             /\ retry' = flag
             /\ handle' = "inflight"
             /\ sleep' = 0
             /\ last' = Step(op, input, "Continue", TRUE)
             /\ lead' = IF state = "WaitingToReconnect" THEN lead ELSE lead + 1
             /\ UNCHANGED <<props, next_reconnect_delay, event_parser,
                            last_event_id, panicked, seen_id, streak, waited,
                            terminated, owed>>
        ELSE Panic(op, input)

\* the next request sent at once, no timer in between
Wait_skipped(op, input) == Connect(op, input, TRUE)

\* the wait taken from the duration grown for the next occasion, before its
\* cap
Wait_grown(op, input) ==
    /\ streak < MaxStreak
    /\ state' = "WaitingToReconnect"
    /\ retry' = FALSE
    /\ handle' = "running"
    /\ sleep' = next_reconnect_delay * props.backoff_factor
    /\ next_reconnect_delay' = backoff(next_reconnect_delay).next
    /\ streak' = streak + 1
    /\ waited' = TRUE
    /\ last' = Step(op, input, "Continue", FALSE)
    /\ UNCHANGED <<props, event_parser, last_event_id, panicked, request,
                   seen_id, terminated, owed, lead>>

\* State::WaitingToReconnect(delay(self.backoff(), ..))
Wait(op, input) ==
    /\ streak < MaxStreak
    /\ state' = "WaitingToReconnect"
    /\ retry' = FALSE
    /\ handle' = "running"
    /\ sleep' = backoff(next_reconnect_delay).wait
    /\ next_reconnect_delay' = backoff(next_reconnect_delay).next
    /\ streak' = streak + 1
    /\ waited' = TRUE
    /\ last' = Step(op, input, "Continue", FALSE)
    /\ UNCHANGED <<props, event_parser, last_event_id, panicked, request,
                   seen_id, terminated, owed, lead>>

\* a new parser made for every connection
Connected_fresh_parser(op, input) ==
    /\ next_reconnect_delay' = reset_backoff
    /\ state' = "Connected"
    /\ retry' = FALSE
    /\ handle' = "open"
    /\ streak' = 0
    /\ event_parser' = EventParser_new
    /\ last' = Step(op, input, "Continue", FALSE)
    /\ UNCHANGED <<props, sleep, last_event_id, panicked, request, seen_id,
                   waited, terminated, owed, lead>>

\* State::Connected(resp.into_body()) after reset_backoff
Connected(op, input) ==
    /\ next_reconnect_delay' = reset_backoff
    /\ state' = "Connected"
    /\ retry' = FALSE
    /\ handle' = "open"
    /\ streak' = 0
    /\ last' = Step(op, input, "Continue", FALSE)
    /\ UNCHANGED <<props, sleep, event_parser, last_event_id, panicked,
                   request, seen_id, waited, terminated, owed, lead>>

\* the return of the event placed inside the `if` on its id: an event
\* without an id is taken from the parser and not returned
PollEvent_return_in_if ==
    /\ ~panicked
    /\ event_parser.queue # <<>>
    /\ LET g == get_event(event_parser)
           s == store_event_id(g.event.id)
       IN  /\ event_parser' = g.parser
           /\ panicked' = ~s.ok
           /\ last_event_id' = IF s.ok THEN s.value ELSE last_event_id
           /\ seen_id' = IF s.ok /\ g.event.id # <<>> THEN g.event.id ELSE seen_id
           /\ last' = Step("event", "queued",
                           IF ~s.ok THEN "Panic"
                           ELSE IF g.event.id # <<>> THEN "Event" ELSE "Continue",
                           FALSE)
           /\ owed' = IF s.ok /\ g.event.id # <<>> /\ owed # <<>>
                         /\ Head(owed) = g.event
                      THEN Tail(owed)
                      ELSE owed
    /\ UNCHANGED <<props, state, retry, handle, sleep, next_reconnect_delay,
                   request, streak, waited, terminated, lead>>

\* poll_next, a queued event
PollEvent ==
    /\ ~panicked
    /\ event_parser.queue # <<>>
    /\ LET g == get_event(event_parser)
           s == store_event_id(g.event.id)
       IN  /\ event_parser' = g.parser
           /\ IF s.ok
              THEN /\ last_event_id' = s.value
                   /\ seen_id' = IF g.event.id # <<>> THEN g.event.id ELSE seen_id
                   /\ last' = Step("event", "queued", "Event", FALSE)
                   /\ panicked' = FALSE
                   /\ owed' = IF owed # <<>> /\ Head(owed) = g.event
                              THEN Tail(owed)
                              ELSE owed
              ELSE /\ panicked' = TRUE
                   /\ last' = Step("event", "queued", "Panic", FALSE)
                   /\ UNCHANGED <<last_event_id, seen_id, owed>>
    /\ UNCHANGED <<props, state, retry, handle, sleep, next_reconnect_delay,
                   request, streak, waited, terminated, lead>>

\* poll_next, StateProj::New
PollNew ==
    /\ ~panicked
    /\ event_parser.queue = <<>>
    /\ state = "New"
    /\ Connect("new", "none", initial_retry)

\* a response with a non-success status taken as a connection
PollConnecting_status_connects(o) ==
    /\ ~panicked
    /\ event_parser.queue = <<>>
    /\ state = "Connecting"
    /\ handle = "inflight"
    /\ LET arm == on_response(o, retry)
       IN  CASE arm = "Pending" -> Return("connecting", o, arm, handle)
             [] arm \in {"Connected", "Err(HttpRequest)"} ->
                    Connected("connecting", o)
             [] arm = "Wait" -> Wait("connecting", o)
             [] OTHER -> Return("connecting", o, arm, "taken")

\* poll_next, StateProj::Connecting, the request is in flight
PollConnecting(o) ==
    /\ ~panicked
    /\ event_parser.queue = <<>>
    /\ state = "Connecting"
    /\ handle = "inflight"
    /\ LET arm == on_response(o, retry)
       IN  CASE arm = "Pending" -> Return("connecting", o, arm, handle)
             [] arm = "Connected" -> Connected("connecting", o)
             [] arm = "Wait" -> Wait("connecting", o)
             [] OTHER -> Return("connecting", o, arm, "taken")

\* poll_next, StateProj::Connecting, after the response future has completed
\* with an item returned: polling it again panics or stays pending
PollCompleted(o) ==
    /\ ~panicked
    /\ event_parser.queue = <<>>
    /\ state = "Connecting"
    /\ handle = "taken"
    /\ IF o = "Pending"
       THEN Return("connecting", "Completed", "Pending", handle)
       ELSE Panic("connecting", "Completed")

\* a failure of process_bytes handled as a read error of the body: under
\* any policy the stream schedules a reconnect
PollChunk_error_reconnects(bytes) ==
    /\ ~panicked
    /\ event_parser.queue = <<>>
    /\ state = "Connected"
    /\ handle = "open"
    /\ LET r == process_bytes(event_parser, bytes)
           b == backoff(next_reconnect_delay)
       IN  /\ Len(r.parser.incomplete_line) <= MaxLine
           /\ Len(r.parser.rec.data) <= MaxData
           /\ event_parser' = r.parser
           /\ last' = Step("connected", "Chunk",
                           IF r.ok THEN "Continue" ELSE "Err(parser)", FALSE)
           /\ terminated' = (terminated \/ ~r.ok)
           /\ owed' = owed \o SubSeq(r.parser.queue, Len(event_parser.queue) + 1,
                                      Len(r.parser.queue))
           /\ state' = IF r.ok THEN state ELSE "WaitingToReconnect"
           /\ handle' = IF r.ok THEN handle ELSE "running"
           /\ sleep' = IF r.ok THEN sleep ELSE b.wait
           /\ next_reconnect_delay' = IF r.ok THEN next_reconnect_delay ELSE b.next
    /\ UNCHANGED <<props, retry, last_event_id, panicked, request, seen_id,
                   streak, waited, lead>>

\* poll_next, StateProj::Connected, a chunk arrives
PollChunk(bytes) ==
    /\ ~panicked
    /\ event_parser.queue = <<>>
    /\ state = "Connected"
    /\ handle = "open"
    /\ LET r == process_bytes(event_parser, bytes)
       IN  /\ Len(r.parser.incomplete_line) <= MaxLine
           /\ Len(r.parser.rec.data) <= MaxData
           /\ event_parser' = r.parser
           /\ last' = Step("connected", "Chunk",
                           IF r.ok THEN "Continue" ELSE "Err(parser)", FALSE)
           /\ terminated' = (terminated \/ ~r.ok)
           /\ owed' = owed \o SubSeq(r.parser.queue, Len(event_parser.queue) + 1,
                                      Len(r.parser.queue))
    /\ UNCHANGED <<props, state, retry, handle, sleep, next_reconnect_delay,
                   last_event_id, panicked, request, seen_id, streak, waited,
                   lead>>

\* the body polled without looking at the parser's queue first
PollConnected_eager(o) ==
    /\ ~panicked
    /\ state = "Connected"
    /\ handle = "ended" => o = "None"
    /\ LET arm == on_body(o, props.reconnect)
       IN  CASE arm = "Pending" -> Return("connected", o, arm, handle)
             [] arm = "Wait" -> Wait("connected", o)
             [] OTHER -> Return("connected", o, arm, "ended")

\* poll_next, StateProj::Connected, the body ends, fails or is not ready.
\* A body that has ended or failed is left in the variant and reports its end
\* when it is polled again.
PollConnected(o) ==
    /\ ~panicked
    /\ event_parser.queue = <<>>
    /\ state = "Connected"
    /\ handle = "ended" => o = "None"    \* an ended body stays ended
    /\ LET arm == on_body(o, props.reconnect)
       IN  CASE arm = "Pending" -> Return("connected", o, arm, handle)
             [] arm = "Wait" -> Wait("connected", o)
             [] OTHER -> Return("connected", o, arm, "ended")

\* poll_next, StateProj::WaitingToReconnect
PollWaiting(o) ==
    /\ ~panicked
    /\ event_parser.queue = <<>>
    /\ state = "WaitingToReconnect"
    /\ IF o = "Pending"
       THEN Return("waiting", o, "Pending", handle)
       ELSE Connect("waiting", o, reconnect_retry)

Next ==
    \/ PollEvent /\ Alone
    \/ PollNew /\ Alone
    \/ \E o \in RespOutcomes : PollConnecting(o) /\ Alone
    \/ \E o \in CompletedOutcomes : PollCompleted(o) /\ Alone
    \/ \E o \in BodyOutcomes : PollConnected(o) /\ Alone
    \/ \E bytes \in Chunks : PollChunk(bytes) /\ Alone
    \/ \E o \in TimerOutcomes : PollWaiting(o) /\ Alone

Spec == Init /\ [][Next]_vars

\* the caller keeps advancing the stream and every timer expires
FairSpec == Spec /\ WF_vars(PollWaiting("Elapsed") /\ Alone)

\* the chunk holding the complete event "id:a\n\n"
LiveChunk == <<105, 100, 58, 97, 10, 10>>

\* the steps of a stream whose responses all have a success status
LiveNext ==
    \/ PollEvent /\ Alone
    \/ PollNew /\ Alone
    \/ \E o \in RespOutcomes \ {"BadStatus"} : PollConnecting(o) /\ Alone
    \/ \E o \in CompletedOutcomes : PollCompleted(o) /\ Alone
    \/ \E o \in BodyOutcomes : PollConnected(o) /\ Alone
    \/ \E bytes \in Chunks : PollChunk(bytes) /\ Alone
    \/ \E o \in TimerOutcomes : PollWaiting(o) /\ Alone

\* the caller keeps advancing the stream, every timer expires, and the
\* transport, whatever failures come first, in the end accepts a connection
\* and delivers the chunk of a complete event, once more if the chunk was
\* joined to the bytes a cut-off record had left in the parser
LiveSpec ==
    /\ Init
    /\ [][LiveNext]_vars
    /\ WF_vars(PollNew /\ Alone)
    /\ WF_vars(PollEvent /\ Alone)
    /\ WF_vars(PollWaiting("Elapsed") /\ Alone)
    /\ SF_vars(PollConnecting("Success") /\ Alone)
    /\ SF_vars(PollChunk(LiveChunk) /\ Alone)
    /\ SF_vars(event_parser.incomplete_line = <<>>
                  /\ PollChunk(LiveChunk) /\ Alone)

\* two streams of one client advanced in any interleaving; the bodies
\* deliver the chunks of PairChunks
PairChunks ==
    { <<105, 100, 58, 97, 10, 10>>,                 \* "id:a\n\n"
      <<100, 97, 116, 97, 58, 120, 10, 10>> }       \* "data:x\n\n"

PairInit == Init

PairNext ==
    \/ Switch
    \/ PollEvent /\ Apart
    \/ PollNew /\ Apart
    \/ \E o \in RespOutcomes : PollConnecting(o) /\ Apart
    \/ \E o \in CompletedOutcomes : PollCompleted(o) /\ Apart
    \/ \E o \in BodyOutcomes : PollConnected(o) /\ Apart
    \/ \E bytes \in PairChunks : PollChunk(bytes) /\ Apart
    \/ \E o \in TimerOutcomes : PollWaiting(o) /\ Apart

PairSpec == PairInit /\ [][PairNext]_vars

TypeOK ==
    /\ props \in Policies
    /\ state \in {"New", "Connecting", "Connected", "WaitingToReconnect"}
    /\ retry \in BOOLEAN
    /\ handle \in {"none", "inflight", "taken", "open", "ended", "running"}
    /\ sleep \in Nat
    /\ next_reconnect_delay \in Nat
    /\ panicked \in BOOLEAN
    /\ streak \in 0..MaxStreak
    /\ waited \in BOOLEAN
    /\ terminated \in BOOLEAN
    /\ last.result \in Items \cup {"Pending", "Continue", "Panic", "none"}

(***************************************************************************)
(* Claims                                                                  *)
(***************************************************************************)

\* C1: the items are events followed by at most one error or end, and no
\* advance made after that error or end produces a further event, error or
\* end.
C1_OneTerminal ==
    ~(last.after_terminal /\ last.result \in Items)

\* C2 as stated: the k-th consecutive wait is
\* min(max_delay, initial_delay * backoff_factor^(k-1)), and the duration
\* stored after scheduling is min(max_delay, wait * backoff_factor).
C2_ClosedForm ==
    state = "WaitingToReconnect" =>
        /\ sleep = Min(props.delay_max,
                       props.delay * Pow(props.backoff_factor, streak - 1))
        /\ next_reconnect_delay = Min(props.delay_max, sleep * props.backoff_factor)

\* C2 amended: the first consecutive wait is initial_delay itself, also when
\* it exceeds max_delay; the k-th for k > 1 is
\* min(max_delay, initial_delay * backoff_factor^(k-1)); each scheduling
\* stores min(max_delay, wait * backoff_factor); and the policy
\* 100ms/400ms/2 waits 100, 200, 400, 400 ms.
C2_Backoff ==
    state = "WaitingToReconnect" =>
        /\ sleep = IF streak = 1
                   THEN props.delay
                   ELSE Min(props.delay_max,
                            props.delay * Pow(props.backoff_factor, streak - 1))
        /\ next_reconnect_delay = Min(props.delay_max, sleep * props.backoff_factor)
        /\ (props.delay = 1 /\ props.delay_max = 4 /\ props.backoff_factor = 2
            /\ streak <= 4) => sleep = <<1, 2, 4, 4>>[streak]

\* fourth consecutive connection failure under 100ms/400ms/2, retrying the
\* initial failure: the wait is 400ms
C2_Witness ==
    /\ state = "WaitingToReconnect"
    /\ props.delay = 1 /\ props.delay_max = 4 /\ props.backoff_factor = 2
    /\ props.retry_initial
    /\ last.from = "Connecting" /\ last.input = "Err"
    /\ streak = 4
    /\ sleep = 4

\* C3: in Connected the stored backoff duration is the initial delay, and
\* the first wait scheduled after a successful connection is the initial
\* delay.
C3_ResetOnConnect ==
    /\ state = "Connected" => next_reconnect_delay = props.delay
    /\ (state = "WaitingToReconnect" /\ last.from = "Connected") =>
           sleep = props.delay

\* Connected was just entered with a stored duration grown by failures
C3_Witness ==
    /\ state = "Connected"
    /\ last.from = "Connecting" /\ last.input = "Success"
    /\ last.pre_delay > props.delay
    /\ next_reconnect_delay = props.delay

\* C4: a non-success status on any attempt, under every policy, returns a
\* fatal HttpRequest error; the stream stays in Connecting, schedules no
\* wait and sends no request, then and afterwards.
C4_StatusIsFatal ==
    /\ [](last.input = "BadStatus" =>
            /\ last.result = "Err(HttpRequest)"
            /\ state = "Connecting" /\ handle = "taken"
            /\ ~last.sent
            /\ next_reconnect_delay = last.pre_delay)
    /\ [][(state = "Connecting" /\ handle = "taken") =>
            (state' = "Connecting" /\ request' = request /\ sleep' = sleep
             /\ waited' = waited)]_vars

\* a non-success status on a reconnect attempt although the initial failure
\* is not retried
C4_Witness ==
    /\ last.input = "BadStatus"
    /\ last.result = "Err(HttpRequest)"
    /\ request.from = "WaitingToReconnect"
    /\ props.reconnect
    /\ ~props.retry_initial

\* C5: with retry_initial_failure=false a transport failure of the first
\* attempt returns a fatal HttpStream error, and the stream has not waited
\* and never waits in that run.
C5_InitialFailureFatal ==
    /\ [](( ~props.retry_initial /\ request.from = "New"
            /\ last.from = "Connecting" /\ last.input = "Err") =>
            /\ last.result = "Err(HttpStream)"
            /\ state = "Connecting"
            /\ ~waited
            /\ next_reconnect_delay = props.delay)
    /\ [][( ~props.retry_initial /\ request.from = "New"
            /\ state = "Connecting" /\ handle = "taken") =>
            (state' = "Connecting" /\ ~waited' /\ request' = request)]_vars

C5_Witness ==
    /\ ~props.retry_initial
    /\ request.from = "New"
    /\ last.from = "Connecting" /\ last.input = "Err"
    /\ last.result = "Err(HttpStream)"
    /\ terminated

\* C6: an attempt issued from WaitingToReconnect has retry flag true and its
\* transport failure leads to WaitingToReconnect, not to an error; the
\* attempt issued from New has retry flag retry_initial_failure.
C6_ReconnectsRetry ==
    /\ (state = "Connecting" /\ request.from = "WaitingToReconnect") => retry
    /\ (state = "Connecting" /\ request.from = "New") =>
           retry = props.retry_initial
    /\ (last.from = "Connecting" /\ last.input = "Err"
        /\ request.from = "WaitingToReconnect") =>
           /\ state = "WaitingToReconnect"
           /\ last.result = "Continue"

\* a reconnect attempt failed and is retried although the initial failure
\* is not
C6_Witness ==
    /\ last.from = "Connecting" /\ last.input = "Err"
    /\ request.from = "WaitingToReconnect"
    /\ ~props.retry_initial
    /\ state = "WaitingToReconnect"

\* C7: with reconnect_on_disconnect=false, in Connected, a clean end of the
\* body returns the end of the sequence and a read error returns a fatal
\* HttpStream error; no wait is scheduled and no request is sent.
C7_NoReconnect ==
    (~props.reconnect /\ last.from = "Connected" /\ last.input \in {"None", "Err"}) =>
        /\ last.result = IF last.input = "None" THEN "None" ELSE "Err(HttpStream)"
        /\ state = "Connected"
        /\ ~last.sent
        /\ sleep = 0
        /\ next_reconnect_delay = last.pre_delay

\* clean end of the body after an event with id "a" was emitted
C7_Witness ==
    /\ ~props.reconnect
    /\ last.from = "Connected" /\ last.input = "None" /\ last.result = "None"
    /\ ~last.after_terminal
    /\ seen_id = <<97>>

\* C8: with reconnect_on_disconnect=true, in Connected, a clean end and a
\* read error both lead to WaitingToReconnect with the next backoff duration
\* and return nothing, and when the timer expires a new connection attempt
\* is issued.
C8_Reconnects ==
    /\ [](( props.reconnect /\ last.from = "Connected"
            /\ last.input \in {"None", "Err"}) =>
            /\ state = "WaitingToReconnect"
            /\ sleep = last.pre_delay
            /\ last.result = "Continue")
    /\ (state = "WaitingToReconnect") ~> (state = "Connecting")

\* C9: every request carries Last-Event-ID equal to the id of the last
\* emitted event that had one, else the seeded id, and carries none exactly
\* when that value is empty; nothing else changes the stored resumption id.
C9_LastEventId ==
    /\ last_event_id = seen_id
    /\ request.issued =>
           /\ request.present = (request.expect # <<>>)
           /\ request.present => request.value = request.expect

\* a reconnect carries the id "a" of an emitted event, not the seed
C9_Witness ==
    /\ request.issued
    /\ request.from = "WaitingToReconnect"
    /\ request.present
    /\ request.value = <<97>>
    /\ state = "Connecting"

\* C10: advancing the stream never panics on a recoverable condition,
\* whatever the event ids and the resumption id: unless the stream was
\* advanced after an error or end, an advance does not panic.
C10_NoPanic ==
    panicked => terminated

\* C11: events are emitted in the order in which the parser completed them:
\* the events completed and not yet emitted are exactly the parser's queue,
\* in its order, so that none is emitted early, twice or dropped, across
\* chunks, disconnects and reconnects.
C11_Fifo ==
    owed = event_parser.queue

\* after a reconnect the first event "a" of a chunk holding "a" and "b" was
\* emitted and "b" is the one owed next
C11_Witness ==
    /\ last.result = "Event"
    /\ request.from = "WaitingToReconnect"
    /\ seen_id = <<97>>
    /\ owed = <<[id |-> <<98>>, data |-> <<>>]>>

C13_MaxDelay ==
    state = "WaitingToReconnect" => sleep <= props.delay_max

\* C13 amended: the first wait after construction or after a successful
\* connection is initial_delay itself, so every wait is no longer than the
\* larger of initial_delay and max_delay; every later consecutive wait is no
\* longer than max_delay; and every wait is no longer than max_delay under a
\* policy whose initial_delay does not exceed its max_delay.
C13_Capped ==
    state = "WaitingToReconnect" =>
        /\ sleep <= IF props.delay > props.delay_max
                    THEN props.delay
                    ELSE props.delay_max
        /\ streak > 1 => sleep <= props.delay_max
        /\ props.delay <= props.delay_max => sleep <= props.delay_max

\* third consecutive wait under 100ms/400ms/3 after a disconnect and two
\* failed reconnections: 900ms is capped to 400ms
C13_Witness ==
    /\ state = "WaitingToReconnect"
    /\ props.delay = 1 /\ props.backoff_factor = 3
    /\ request.from = "WaitingToReconnect"
    /\ last.from = "Connecting" /\ last.input = "Err"
    /\ streak = 3
    /\ sleep = props.delay_max

\* C14: under retry_initial_failure and reconnect_on_disconnect, a stream
\* that keeps being advanced, whose timers expire, whose responses have a
\* success status and whose transport in the end connects and delivers a
\* complete event, eventually emits an event.
C14_Emits ==
    (props.retry_initial /\ props.reconnect) => <>(last.result = "Event")

\* C15: the state changes only from New to Connecting with a request issued,
\* from Connecting to Connected on a success status, from Connecting to
\* WaitingToReconnect on a transport failure with the retry flag set, from
\* Connected to WaitingToReconnect on end of body or read error under
\* reconnect_on_disconnect, and from WaitingToReconnect to Connecting on
\* timer expiry; and a step that feeds a chunk starts and ends in Connected.
C15_Transitions ==
    [][/\ state' # state =>
            \/ /\ state = "New" /\ state' = "Connecting"
               /\ last'.sent
            \/ /\ state = "Connecting" /\ state' = "Connected"
               /\ last'.input = "Success"
            \/ /\ state = "Connecting" /\ state' = "WaitingToReconnect"
               /\ last'.input = "Err" /\ retry
            \/ /\ state = "Connected" /\ state' = "WaitingToReconnect"
               /\ last'.input \in {"None", "Err"} /\ props.reconnect
            \/ /\ state = "WaitingToReconnect" /\ state' = "Connecting"
               /\ last'.input = "Elapsed" /\ last'.sent
       /\ (last' # last /\ last'.input = "Chunk") =>
            state = "Connected" /\ state' = "Connected"]_vars

\* a second disconnect: the stream was connected, lost the body, waited,
\* reconnected, and now waits again after a read error
C15_Witness ==
    /\ state = "WaitingToReconnect"
    /\ props.reconnect
    /\ last.from = "Connected" /\ last.input = "Err"
    /\ request.from = "WaitingToReconnect"
    /\ streak = 1

\* C16: while the parser's queue holds an event the only step taken is the
\* return of its first event, which leaves the state machine, the request
\* and the backoff as they are; and when a request has just been issued the
\* queue is empty, no parsed event is still owed and the resumption id is the
\* last non-empty id emitted.
C16_DrainFirst ==
    /\ [][event_parser.queue # <<>> =>
            /\ last'.op = "event"
            /\ event_parser'.queue = Tail(event_parser.queue)
            /\ UNCHANGED <<state, retry, handle, sleep, next_reconnect_delay,
                           request>>]_vars
    /\ [](last.sent =>
            /\ event_parser.queue = <<>>
            /\ owed = <<>>
            /\ last_event_id = seen_id
            /\ request.value = seen_id)

\* a chunk held the events "a" and "b"; both were emitted before the body
\* ended, and the request issued after the wait resumes from "b"
C16_Witness ==
    /\ last.sent
    /\ last.from = "WaitingToReconnect"
    /\ seen_id = <<98>>
    /\ request.value = <<98>>
    /\ event_parser.queue = <<>>

\* C17: the parser is changed only by a step that feeds it a chunk or takes
\* an event from it, and such a step leaves the state variant as it is; every
\* step of the cycle Connected -> WaitingToReconnect -> Connecting ->
\* Connected leaves the partial-line buffer and the record being assembled
\* unchanged.
C17_OneParser ==
    [][/\ event_parser' # event_parser =>
            /\ last'.op = "event" \/ last'.input = "Chunk"
            /\ state' = state
       /\ state' # state =>
            /\ event_parser'.incomplete_line = event_parser.incomplete_line
            /\ event_parser'.rec = event_parser.rec]_vars

\* the body was cut off after the bytes "id:\xC3"; the stream waited and
\* reconnected, and the parser of the new connection still holds them
C17_Witness ==
    /\ state = "Connected"
    /\ last.from = "Connecting" /\ last.input = "Success"
    /\ request.from = "WaitingToReconnect"
    /\ event_parser.incomplete_line = <<105, 100, 58, 195>>

\* C18: the end of the sequence is returned only from Connected, on a clean
\* end of the body, under a policy with reconnect_on_disconnect false; under
\* reconnect_on_disconnect true every item that is not an event is an error.
C18_NoGracefulEnd ==
    /\ last.result = "None" =>
           /\ ~props.reconnect
           /\ last.from = "Connected"
           /\ last.input = "None"
    /\ (props.reconnect /\ last.result \in Terminals) =>
           last.result \in {"Err(HttpRequest)", "Err(HttpStream)", "Err(parser)"}

\* under reconnect_on_disconnect the body of a reconnected stream ends
\* cleanly: no end of sequence is returned, the stream waits to reconnect
C18_Witness ==
    /\ props.reconnect
    /\ state = "WaitingToReconnect"
    /\ last.from = "Connected" /\ last.input = "None"
    /\ last.result = "Continue"
    /\ request.from = "WaitingToReconnect"

\* C19: a step that returns an error or the end of the sequence leaves the
\* state variant, the stored backoff duration and the resumption id as they
\* were; the variant it leaves is Connecting or Connected, none made for the
\* purpose; and a failure of the parser leaves the stream in Connected with
\* no wait scheduled, under every policy.
C19_ErrorLeavesState ==
    [][last'.result \in Terminals =>
           /\ state' = state
           /\ next_reconnect_delay' = next_reconnect_delay
           /\ last_event_id' = last_event_id
           /\ state' \in {"Connecting", "Connected"}
           /\ last'.result = "Err(parser)" =>
                  /\ state' = "Connected"
                  /\ sleep' = sleep
                  /\ streak' = streak]_vars

\* a reconnect attempt of a stream that has emitted the event "a" is answered
\* with a non-success status: the error is returned, the stream is still
\* Connecting, the stored duration is still the grown one and the id is kept
C19_Witness ==
    /\ last.result = "Err(HttpRequest)"
    /\ state = "Connecting"
    /\ request.from = "WaitingToReconnect"
    /\ next_reconnect_delay > props.delay
    /\ last_event_id = <<97>>

\* C20: a step issues a request only from New, which it does for the first
\* request of the stream only, or from WaitingToReconnect when the timer has
\* expired; the requests issued are at most one more than the timers
\* expired.
C20_WaitBetweenRequests ==
    /\ [][last'.sent =>
            \/ state = "New" /\ ~request.issued
            \/ state = "WaitingToReconnect" /\ last'.input = "Elapsed"]_vars
    /\ [](lead <= 1)
    /\ [](state = "New" => ~request.issued /\ lead = 0)

\* the second reconnect attempt in a row: the first one failed, a second
\* timer ran and expired, and only then was the request issued
C20_Witness ==
    /\ last.sent
    /\ last.from = "WaitingToReconnect" /\ last.input = "Elapsed"
    /\ streak = 2
    /\ lead = 1
    /\ state = "Connecting"

====
